---- MODULE Spec2Model ----
(***************************************************************************)
(* Model of Resources/EvaluationScript/generate_backtest_results.py: the   *)
(* batch that unzips and builds every project bundle, runs the console     *)
(* executable and (optionally) the gRPC server/client pair over all test   *)
(* folders, and inspects the produced artifacts.                           *)
(*                                                                         *)
(* The script is one sequential process; pc is its position.  External     *)
(* programs (dotnet build, BacktestConsole.exe, GrpcBacktestServer.exe,    *)
(* GrpcEvaluation.exe), the content of the bundles and the operator's      *)
(* interrupt are the environment: their outcomes are drawn with \E at the  *)
(* step that observes them.  The script is written for Windows (bare       *)
(* "*.exe" command lines): a command string is launched through the        *)
(* current directory, and a missing executable raises FileNotFoundError.   *)
(*                                                                         *)
(* Paths given on the command line are taken to be absolute, so that a     *)
(* change of working directory does not change what they name.             *)
(***************************************************************************)
EXTENDS Integers, Sequences, FiniteSets, TLC

\* Number of entries of the --sln directory.
NumBundles == 2
\* Number of entries of the --tests directory.
NumTests == 2

Bundles == 1..NumBundles
Tests == 1..NumTests

VARIABLES
    pc,            \* position of the script
    args,          \* argparse namespace: which flags were given
    sln_entries,   \* suffix of every entry of the --sln directory
    tests,         \* --tests directory: per entry, a folder's files or a plain file
    out_existed,   \* the --out directory existed when the script started
    naming,        \* how the folders of the --tests directory are named
    out_root,      \* --out directory: "absent", "old", "created", "recreated"
    grpc_client_path, \* "None" or "client" (run_tests, l.226-230)
    cwd,           \* process working directory
    bi,            \* index of the --sln entry the loop of run_tests has taken
    ti,            \* index of the --tests entry the current loop is at
    handed,        \* bundles passed to create_output_for_project
    materialized,  \* per bundle: outcome of extract_build_solution
    proj,          \* built tree of the current bundle
    output_dirs,   \* bundles whose <out>/<name>/output directory exists
    visited,       \* <<test, backend>> given to run_single_*_test for bundle bi
    launched,      \* <<test, backend>> -> number of launches for bundle bi
    failed_cases,  \* <<test, backend>> whose executable exited non-zero
    artifacts,     \* result files in the output folder of bundle bi
    validated,     \* bundles given to check_output_structure
    launches,      \* the processes started for bundle bi, in order
    returned,      \* <<test, backend>> whose run_single_*_test returned
    inspected,     \* result files check_output_structure has been through
    report,        \* what check_output_structure printed for the last of them
    process,       \* the local 'process' of grpc_console_tests
    server_starts, \* servers started in the current run of grpc_console_tests
    alive_servers, \* GrpcBacktestServer.exe processes alive
    settled,       \* the sleep after the server start has elapsed
    proc_2,        \* the local 'proc_2' of run_single_grpc_test
    alive_clients, \* GrpcEvaluation.exe processes alive
    console_alive, \* a BacktestConsole.exe is running
    raised,        \* exception that ended the script ("none" while running)
    raised_at,     \* where it was raised
    exit_code      \* "running", else the exit status of the script

vars == <<pc, args, sln_entries, tests, out_existed, naming, launches, returned,
          inspected, report, out_root, grpc_client_path, cwd, bi, ti,
          handed, materialized, proj, output_dirs, visited, launched,
          failed_cases, artifacts, validated, process, server_starts,
          alive_servers, settled, proc_2, alive_clients, console_alive,
          raised, raised_at, exit_code>>

Backends == {"console", "grpc"}

\* A file name, as its stem and its extension.
File(stem, ext) == [stem |-> stem, ext |-> ext]
\* The os.listdir results a test folder may give.
Listings ==
    { <<File("params", ".json"), File("data", ".csv")>>,
      <<File("data", ".csv"), File("params", ".json"), File("more", ".csv")>>,
      <<File("data", ".csv"), File("readme", ".txt")>> }
\* An entry of the --tests directory: a folder with its files, or a plain file.
TestEntries == [is_dir : {TRUE}, files : Listings]
                 \cup {[is_dir |-> FALSE, files |-> <<>>]}

\* The listings of the --sln directory: the suffix of each entry.
SlnListings == [Bundles -> {".zip", ".txt"}]

Flags == [sln : BOOLEAN, tests : BOOLEAN, build : BOOLEAN, out : BOOLEAN,
          grpc : BOOLEAN, force : BOOLEAN]

\* No executable was launched for any test folder.
NoLaunch == [x \in Tests \X Backends |-> 0]

NoProj == [console_dir |-> FALSE, server_folder |-> FALSE, server_exe |-> FALSE]

\* Working directories: the one the script was started in, the gRPC staging
\* folder, the client bin folder, and per bundle the extracted root, the console
\* bin folder and the server bin folder.
Dir(kind, b) == <<kind, b>>

\* A path: a directory and the file name in it.  A name is the sequence of
\* the strings it is put together from, so that joining names is \o.
Path(dir, name) == [dir |-> dir, name |-> name]

\* The folder names of the --tests directory.  "plain": case1, case2, ...;
\* "suffixed": every second folder is named after the one before it with
\* "_grpc" appended (case1, case1_grpc, case3, ...).
Namings == {"plain", "suffixed"}
\* test_folder.name (l.92, l.131)
TestName(t) ==
    IF naming = "suffixed" /\ t % 2 = 0
      THEN <<"case", ToString(t - 1), "_grpc">>
      ELSE <<"case", ToString(t)>>

\* Result-file suffix of each backend (l.93, l.133): "_output.json" and
\* "_grpc_output.json".
Suffix(backend) ==
    IF backend = "console" THEN <<"_output.json">> ELSE <<"_grpc", "_output.json">>

\* out_folder.joinpath(test_folder.name) + suffix, with out_folder the output
\* folder of bundle b (l.92-93, l.131-133, l.189).
ResultFile(b, t, backend) == Path(Dir("output", b), TestName(t) \o Suffix(backend))

IsCsv(f) == f.ext = ".csv"
IsJson(f) == f.ext = ".json"

\* get_csv_json_from_folder: the .csv names and the .json names of a folder.
get_csv_json_from_folder(folder) ==
    <<SelectSeq(folder.files, IsCsv), SelectSeq(folder.files, IsJson)>>

\* The test of l.87 and l.126 with 'and' for 'or'.
WrongCountAnd(csvs, jsons) == Len(csvs) # 1 /\ Len(jsons) # 1
\* l.87, l.126: len(csvs) != 1 or len(jsons) != 1
WrongCount(csvs, jsons) == Len(csvs) # 1 \/ Len(jsons) # 1

Skips(folder) ==
    LET cj == get_csv_json_from_folder(folder) IN WrongCount(cj[1], cj[2])

\* test_folder.joinpath(name) for a file of test folder t (l.90-91, l.129-130)
TestFile(t, f) == Path(Dir("test", t), <<f.stem, f.ext>>)

\* A started process: the executable named on the command line, its
\* arguments, the working directory at the start, and the test folder and
\* backend it was started for (test 0: the server, started for none).
Launch(exe, argv, dir, t, backend) ==
    [exe |-> exe, argv |-> argv, cwd |-> dir, test |-> t, backend |-> backend]

\* l.90-93: BacktestConsole.exe {json_file} {csv_file} {result_file}_output.json
ConsoleCommand(b, t) ==
    LET cj == get_csv_json_from_folder(tests[t])
    IN  <<TestFile(t, cj[2][1]), TestFile(t, cj[1][1]), ResultFile(b, t, "console")>>

\* l.129-133: ["GrpcEvaluation.exe", json_file, csv_file,
\* f"{result_file}_grpc_output.json"]
GrpcCommand(b, t) ==
    LET cj == get_csv_json_from_folder(tests[t])
    IN  <<TestFile(t, cj[2][1]), TestFile(t, cj[1][1]), ResultFile(b, t, "grpc")>>

\* l.158
EXPECTED_FIELDS_misspelt ==
    <<"date", "value", "deltas", "deltasStddev", "price", "priceStdDev">>
\* l.158
EXPECTED_FIELDS ==
    <<"date", "value", "deltas", "deltasStdDev", "price", "priceStdDev">>

\* What pd.read_json makes of a result file (l.162-163): the columns of the
\* frame, or ValueError.  The files looked at: one with every field, one with
\* three of them, one with the names capitalised and a column of its own, and
\* one that is no JSON.
Contents ==
    { [parsable |-> TRUE,
       columns |-> {"date", "value", "deltas", "deltasStdDev", "price", "priceStdDev"}],
      [parsable |-> TRUE, columns |-> {"date", "value", "price"}],
      [parsable |-> TRUE,
       columns |-> {"Date", "Value", "Deltas", "DeltasStdDev", "Price",
                    "PriceStdDev", "portfolio"}],
      [parsable |-> FALSE, columns |-> {}] }

\* l.164-166: the fields a warning is printed for, in the order of the loop.
MissingFields(columns) ==
    SelectSeq(EXPECTED_FIELDS, LAMBDA field : field \notin columns)

\* l.160-169: what is printed for one file with content c: the warnings and
\* "--> OK", or "Unable to parse json file."
CheckFile(file, c) ==
    [file |-> file, parsable |-> c.parsable, columns |-> c.columns,
     warnings |-> IF c.parsable THEN MissingFields(c.columns) ELSE <<>>,
     last_line |-> IF c.parsable THEN "--> OK" ELSE "Unable to parse json file."]
\* Nothing printed yet.
NoReport ==
    [file |-> Path(Dir("none", 0), <<>>), parsable |-> FALSE, columns |-> {},
     warnings |-> <<>>, last_line |-> ""]

\* The file an executable writes: its third argument.
Written(launch) == launch.argv[3]

\* l.85: solution_folder, the console bin folder of bundle b (l.182-185)
SolutionFolder(b) == Dir("console", b)
\* l.99-101: bin_folder, the server bin folder of bundle b
ServerFolder(b) == Dir("server", b)
\* run_single_grpc_test without the os.chdir of l.132: the directory stays.
ClientPathUnchanged == cwd
\* l.132: client_path, the client bin folder (l.152, l.230)
ClientPath == Dir("client", 0)

\* The failure kinds of extract_build_solution.
FailureKinds == {"missing", "corrupt", "noroot", "buildfail"}

TypeOK ==
    /\ args \in Flags
    /\ sln_entries \in SlnListings
    /\ tests \in [Tests -> TestEntries]
    /\ out_existed \in BOOLEAN
    /\ naming \in Namings
    /\ returned \subseteq (Tests \X Backends)
    /\ out_root \in {"absent", "old", "created", "recreated"}
    /\ grpc_client_path \in {"None", "client"}
    /\ bi \in 0..NumBundles
    /\ ti \in 1..(NumTests + 1)
    /\ handed \subseteq Bundles
    /\ output_dirs \subseteq Bundles
    /\ validated \subseteq Bundles
    /\ visited \subseteq (Tests \X Backends)
    /\ failed_cases \subseteq (Tests \X Backends)
    /\ process \in {"unbound", "alive", "killed"}
    /\ proc_2 \in {"none", "alive", "exited", "killed"}
    /\ alive_servers \in Nat
    /\ alive_clients \in Nat
    /\ settled \in BOOLEAN
    /\ console_alive \in BOOLEAN
    /\ exit_code \in {"running", "0", "1", "interrupted"}

Init ==
    /\ pc = "start"
    /\ args \in Flags
    /\ sln_entries \in SlnListings
    /\ tests \in [Tests -> TestEntries]
    /\ out_existed \in BOOLEAN
    /\ naming \in Namings
    /\ launches = <<>>
    /\ returned = {}
    /\ inspected = {}
    /\ report = NoReport
    /\ out_root = IF out_existed THEN "old" ELSE "absent"
    /\ grpc_client_path = "None"
    /\ cwd = Dir("start", 0)
    /\ bi = 0
    /\ ti = 1
    /\ handed = {}
    /\ materialized = [b \in Bundles |-> "pending"]
    /\ proj = NoProj
    /\ output_dirs = {}
    /\ visited = {}
    /\ launched = NoLaunch
    /\ failed_cases = {}
    /\ artifacts = {}
    /\ validated = {}
    /\ process = "unbound"
    /\ server_starts = 0
    /\ alive_servers = 0
    /\ settled = FALSE
    /\ proc_2 = "none"
    /\ alive_clients = 0
    /\ console_alive = FALSE
    /\ raised = "none"
    /\ raised_at = "none"
    /\ exit_code = "running"

\* The script ends: sys.exit(1) outside any handler, or an exception no handler
\* catches (the interpreter prints the traceback and exits with status 1).
Ends(exc, where, code) ==
    /\ pc' = "done"
    /\ raised' = exc
    /\ raised_at' = where
    /\ exit_code' = code

Running == UNCHANGED <<raised, raised_at, exit_code>>

Inputs == <<args, sln_entries, tests, out_existed, naming>>
Trace == <<launches, returned>>
Validation == <<inspected, report>>
Procs == <<process, server_starts, alive_servers, settled, proc_2, alive_clients,
           console_alive>>
Results == <<output_dirs, visited, launched, failed_cases, artifacts, validated>>

(***************************************************************************)
(* run_tests                                                               *)
(***************************************************************************)

\* l.205-230: the required flags; without --grpc there is no client path.
run_tests_parse ==
    /\ pc = "start"
    /\ IF ~args.sln \/ ~args.tests \/ ~args.build \/ ~args.out
         THEN /\ Ends("SystemExit", "args", "1")
              /\ UNCHANGED grpc_client_path
         ELSE /\ pc' = IF args.grpc THEN "build_client" ELSE "setup_out"
              /\ grpc_client_path' = "None"
              /\ Running
    /\ UNCHANGED <<Inputs, Trace, Validation, out_root, cwd, bi, ti, handed, materialized, proj,
                   Results, Procs>>

\* l.139-152, called at l.230: copy the client sources to the staging folder,
\* change to it and build; a failed build raises CalledProcessError, which
\* nothing catches.
create_grpc_client_path ==
    /\ pc = "build_client"
    /\ cwd' = Dir("staging", 0)
    /\ \E build_ok \in BOOLEAN :
         IF build_ok
           THEN /\ grpc_client_path' = "client"
                /\ pc' = "setup_out"
                /\ Running
           ELSE /\ Ends("CalledProcessError", "client_build", "1")
                /\ UNCHANGED grpc_client_path
    /\ UNCHANGED <<Inputs, Trace, Validation, out_root, bi, ti, handed, materialized, proj,
                   Results, Procs>>

\* l.235-241 with the force test inverted.
run_tests_setup_out_inverted ==
    /\ pc = "setup_out"
    /\ IF out_root = "old"
         THEN IF ~args.force
                THEN /\ out_root' = "recreated"
                     /\ pc' = "loop"
                     /\ Running
                ELSE /\ Ends("SystemExit", "out_exists", "1")
                     /\ UNCHANGED out_root
         ELSE /\ out_root' = "created"
              /\ pc' = "loop"
              /\ Running
    /\ UNCHANGED <<Inputs, Trace, Validation, grpc_client_path, cwd, bi, ti, handed, materialized,
                   proj, Results, Procs>>

\* l.235-241: an existing output root is removed under --force and is an error
\* otherwise; then the root is created.
run_tests_setup_out ==
    /\ pc = "setup_out"
    /\ IF out_root = "old"
         THEN IF args.force
                THEN /\ out_root' = "recreated"
                     /\ pc' = "loop"
                     /\ Running
                ELSE /\ Ends("SystemExit", "out_exists", "1")
                     /\ UNCHANGED out_root
         ELSE /\ out_root' = "created"
              /\ pc' = "loop"
              /\ Running
    /\ UNCHANGED <<Inputs, Trace, Validation, grpc_client_path, cwd, bi, ti, handed, materialized,
                   proj, Results, Procs>>

\* l.242-244: the next entry of the --sln directory; only *.zip entries are
\* handed to create_output_for_project; after the last entry the script ends.
\* What is recorded of the entry before (its test runs, its output folder,
\* the locals of the calls made for it) is dropped: the code never reads it
\* again.  Of a failed materialization only build_ok = False is left (every
\* handler returns (False, None)); which failure it was is dropped with it.
Forgotten(m) == IF m \in FailureKinds THEN "failed" ELSE m
run_tests_loop ==
    /\ pc = "loop"
    /\ IF bi = NumBundles
         THEN /\ pc' = "done"
              /\ exit_code' = "0"
              /\ UNCHANGED <<raised, raised_at, bi, handed, visited, launched,
                             failed_cases, artifacts, process, server_starts,
                             settled, proc_2, Trace, materialized>>
         ELSE /\ Running
              /\ bi' = bi + 1
              /\ materialized' = [b \in Bundles |-> Forgotten(materialized[b])]
              /\ launches' = <<>>
              /\ returned' = {}
              /\ visited' = {}
              /\ launched' = NoLaunch
              /\ failed_cases' = {}
              /\ artifacts' = {}
              /\ process' = "unbound"
              /\ proc_2' = "none"
              /\ server_starts' = 0
              /\ settled' = FALSE
              /\ IF sln_entries[bi + 1] = ".zip"
                   THEN /\ pc' = "extract"
                        /\ handed' = handed \cup {bi + 1}
                   ELSE /\ pc' = "loop"
                        /\ UNCHANGED handed
    /\ UNCHANGED <<Inputs, Validation, out_root, grpc_client_path, cwd, ti,
                   proj, output_dirs, validated, alive_servers, alive_clients,
                   console_alive>>

(***************************************************************************)
(* extract_build_solution and the start of create_output_for_project       *)
(***************************************************************************)

\* The exception behind each failure kind of extract_build_solution.
ExceptionOf(kind) ==
    CASE kind = "missing" -> "SystemExit"
      [] kind = "corrupt" -> "BadZipFile"
      [] kind = "noroot" -> "SystemExit"
      [] kind = "buildfail" -> "CalledProcessError"

\* extract_build_solution without its except clauses: the exception leaves
\* create_output_for_project and run_tests.
extract_build_solution_uncaught(kind) ==
    /\ materialized' = [materialized EXCEPT ![bi] = kind]
    /\ Ends(ExceptionOf(kind), "materialize", "1")
    /\ UNCHANGED <<bi, proj>>

\* l.54-65 and l.180-181: every except clause returns (False, None); build_ok
\* is false, create_output_for_project does nothing more and the loop of
\* run_tests goes on.
extract_build_solution_failed(kind) ==
    /\ materialized' = [materialized EXCEPT ![bi] = kind]
    /\ pc' = "loop"
    /\ Running
    /\ UNCHANGED <<bi, proj>>

\* The folder the archive was extracted into, in place of the one of l.45.
DestinationFolder(b) == Dir("build", 0)
\* l.45, l.49: new_folder, the folder named after the bundle inside the
\* destination folder.
NewFolder(b) == Dir("root", b)

\* l.31-49: the bundle is looked up (sys.exit(1) when it is gone), opened and
\* extracted (BadZipFile when corrupt), the folder named after it is looked up
\* (sys.exit(1) when absent), and the working directory moves into it.
extract_build_solution_extract ==
    /\ pc = "extract"
    /\ \E outcome \in {"missing", "corrupt", "noroot", "extracted"} :
         IF outcome = "extracted"
           THEN /\ cwd' = NewFolder(bi)
                /\ pc' = "build"
                /\ Running
                /\ UNCHANGED <<bi, materialized, proj>>
           ELSE /\ extract_build_solution_failed(outcome)
                /\ UNCHANGED cwd
    /\ UNCHANGED <<Inputs, Trace, Validation, out_root, grpc_client_path, ti,
                   handed, Results, Procs>>

\* The trees a built bundle may hold: the console bin folder, the
\* GrpcBacktestServer folder and, inside it, the built server executable.
Projects ==
    { p \in [console_dir : BOOLEAN, server_folder : BOOLEAN, server_exe : BOOLEAN] :
        p.server_exe => p.server_folder }

\* l.50-53: dotnet build with check=True; a non-zero status raises
\* CalledProcessError, otherwise (True, new_folder) is returned.  The call
\* is given no timeout: while the build has not ended, subprocess.run waits,
\* and TimeoutExpired (l.60) is never raised.
extract_build_solution_build ==
    /\ pc = "build"
    /\ \E status \in {"zero", "nonzero", "never"} :
         CASE status = "zero" ->
                /\ materialized' = [materialized EXCEPT ![bi] = "ok"]
                /\ \E p \in Projects : proj' = p
                /\ pc' = "check_console"
                /\ Running
                /\ UNCHANGED bi
           [] status = "nonzero" -> extract_build_solution_failed("buildfail")
           [] status = "never" ->
                /\ pc' = "build_blocked"
                /\ Running
                /\ UNCHANGED <<bi, materialized, proj>>
    /\ UNCHANGED <<Inputs, Trace, Validation, out_root, grpc_client_path, cwd, ti, handed, Results,
                   Procs>>

\* create_output_for_project without the test of l.186-188.
create_output_check_console_unchecked ==
    /\ pc = "check_console"
    /\ pc' = "console_mkdir"
    /\ Running
    /\ UNCHANGED <<Inputs, Trace, Validation, out_root, grpc_client_path, cwd,
                   bi, ti, handed, materialized, proj, Results, Procs>>

\* l.181-189: without the console bin folder the script exits with status 1;
\* this sys.exit is inside no try.
create_output_check_console ==
    /\ pc = "check_console"
    /\ IF proj.console_dir
         THEN /\ pc' = "console_mkdir"
              /\ Running
         ELSE Ends("SystemExit", "console_dir", "1")
    /\ UNCHANGED <<Inputs, Trace, Validation, out_root, grpc_client_path, cwd, bi, ti, handed,
                   materialized, proj, Results, Procs>>

(***************************************************************************)
(* console_tests and run_single_console_test                               *)
(***************************************************************************)

\* l.71-73: the output folder of the project is created.
console_tests_mkdir ==
    /\ pc = "console_mkdir"
    /\ output_dirs' = output_dirs \cup {bi}
    /\ ti' = 1
    /\ pc' = "console_loop"
    /\ Running
    /\ UNCHANGED <<Inputs, Trace, Validation, out_root, grpc_client_path, cwd, bi, handed,
                   materialized, proj, visited, launched, failed_cases,
                   artifacts, validated, Procs>>

\* l.74-76 and l.84-93 up to the launch: entries that are not folders are
\* passed over; run_single_console_test changes to the console bin folder,
\* skips a folder with a wrong file count, and otherwise launches
\* BacktestConsole.exe (FileNotFoundError, uncaught, when it is not there).
\* After the last entry console_tests returns (l.190-191).
console_tests_step ==
    /\ pc = "console_loop"
    /\ IF ti > NumTests
         THEN /\ pc' = "grpc_check"
              /\ Running
              /\ UNCHANGED <<ti, cwd, visited, launched, console_alive, Trace>>
         ELSE IF ~tests[ti].is_dir
           THEN /\ ti' = ti + 1
                /\ pc' = "console_loop"
                /\ Running
                /\ UNCHANGED <<cwd, visited, launched, console_alive, Trace>>
           ELSE /\ visited' = visited \cup {<<ti, "console">>}
                /\ cwd' = SolutionFolder(bi)
                /\ IF Skips(tests[ti])
                     THEN /\ ti' = ti + 1
                          /\ pc' = "console_loop"
                          /\ returned' = returned \cup {<<ti, "console">>}
                          /\ Running
                          /\ UNCHANGED <<launched, console_alive, launches>>
                     ELSE \E found \in BOOLEAN :
                            IF found
                              THEN /\ launched' = [launched EXCEPT
                                          ![<<ti, "console">>] = @ + 1]
                                   /\ launches' = Append(launches,
                                          Launch("BacktestConsole.exe",
                                                 ConsoleCommand(bi, ti), cwd',
                                                 ti, "console"))
                                   /\ console_alive' = TRUE
                                   /\ pc' = "console_wait"
                                   /\ Running
                                   /\ UNCHANGED <<ti, returned>>
                              ELSE /\ Ends("FileNotFoundError", "console_run", "1")
                                   /\ UNCHANGED <<ti, launched, console_alive,
                                                  Trace>>
    /\ UNCHANGED <<Inputs, Validation, out_root, grpc_client_path, bi, handed, materialized,
                   proj, output_dirs, failed_cases, artifacts, validated,
                   process, server_starts, alive_servers, settled, proc_2,
                   alive_clients>>

\* l.93: subprocess.run waits for the console; with check=True a non-zero
\* status raises CalledProcessError, which console_tests (except SystemExit
\* only), create_output_for_project and run_tests do not catch.  A console
\* that succeeds has written its third argument; one that fails is taken to
\* have written nothing.
run_single_console_test_exit ==
    /\ pc = "console_wait"
    /\ console_alive' = FALSE
    /\ \E status_ok \in BOOLEAN :
         /\ artifacts' = IF status_ok
                           THEN artifacts \cup {Written(launches[Len(launches)])}
                           ELSE artifacts
         /\ IF status_ok
              THEN /\ ti' = ti + 1
                   /\ pc' = "console_loop"
                   /\ returned' = returned \cup {<<ti, "console">>}
                   /\ Running
                   /\ UNCHANGED failed_cases
              ELSE /\ failed_cases' = failed_cases \cup {<<ti, "console">>}
                   /\ Ends("CalledProcessError", "console_run", "1")
                   /\ UNCHANGED <<ti, returned>>
    /\ UNCHANGED <<Inputs, Validation, launches, out_root, grpc_client_path, cwd, bi, handed,
                   materialized, proj, output_dirs, visited, launched, validated,
                   process, server_starts, alive_servers, settled, proc_2,
                   alive_clients>>

(***************************************************************************)
(* grpc_console_tests and run_single_grpc_test                             *)
(***************************************************************************)

\* l.191-197: the gRPC backend is entered when a client path was configured
\* and the bundle holds a GrpcBacktestServer folder.
create_output_grpc_check ==
    /\ pc = "grpc_check"
    /\ IF grpc_client_path # "None" /\ proj.server_folder
         THEN pc' = "grpc_start"
         ELSE pc' = "validate"
    /\ Running
    /\ UNCHANGED <<Inputs, Trace, Validation, out_root, grpc_client_path, cwd, bi, ti, handed,
                   materialized, proj, Results, Procs>>

\* l.99-103: change to the server bin folder and start the server.  When the
\* folder or the executable is missing, os.chdir or Popen raises
\* FileNotFoundError; the handler of l.114-118 calls process.kill() with
\* 'process' never assigned, which raises UnboundLocalError out of the handler.
grpc_console_tests_start ==
    /\ pc = "grpc_start"
    /\ IF proj.server_exe
         THEN /\ cwd' = ServerFolder(bi)
              /\ launches' = Append(launches,
                     Launch("GrpcBacktestServer.exe", <<>>, cwd', 0, "grpc"))
              /\ process' = "alive"
              /\ alive_servers' = alive_servers + 1
              /\ server_starts' = server_starts + 1
              /\ pc' = "grpc_sleep"
              /\ Running
         ELSE /\ \E bin_folder \in BOOLEAN :
                   cwd' = IF bin_folder THEN ServerFolder(bi) ELSE cwd
              /\ Ends("UnboundLocalError", "grpc_server", "1")
              /\ UNCHANGED <<process, alive_servers, server_starts, launches>>
    /\ UNCHANGED <<Inputs, Validation, returned, out_root, grpc_client_path, bi, ti, handed,
                   materialized, proj, Results, settled, proc_2, alive_clients,
                   console_alive>>

\* l.104: time.sleep(3), then the loop over the test folders starts.
grpc_console_tests_sleep ==
    /\ pc = "grpc_sleep"
    /\ settled' = TRUE
    /\ ti' = 1
    /\ pc' = "grpc_loop"
    /\ Running
    /\ UNCHANGED <<Inputs, Trace, Validation, out_root, grpc_client_path, cwd, bi, handed,
                   materialized, proj, Results, process, server_starts,
                   alive_servers, proc_2, alive_clients, console_alive>>

\* grpc_console_tests returning without process.kill().
grpc_console_tests_return_nokill ==
    /\ pc' = "validate"
    /\ UNCHANGED <<process, alive_servers>>
    /\ Running

\* l.108-109 after the loop, and l.114-118 on FileNotFoundError with the
\* server started: process.kill(), and grpc_console_tests returns.
grpc_console_tests_return ==
    /\ process' = "killed"
    /\ alive_servers' = alive_servers - 1
    /\ pc' = "validate"
    /\ Running

\* l.105-109 and l.124-133: entries that are not folders are passed over;
\* run_single_grpc_test skips a folder with a wrong file count, and otherwise
\* changes to the client folder and starts GrpcEvaluation.exe.  A missing
\* client folder or executable raises FileNotFoundError, handled at l.114; any
\* other OSError of the launch (the file is there but cannot be executed) is
\* caught nowhere.
grpc_console_tests_step ==
    /\ pc = "grpc_loop"
    /\ IF ti > NumTests
         THEN /\ grpc_console_tests_return
              /\ UNCHANGED <<ti, cwd, visited, launched, proc_2, alive_clients,
                             Trace>>
         ELSE IF ~tests[ti].is_dir
           THEN /\ ti' = ti + 1
                /\ pc' = "grpc_loop"
                /\ Running
                /\ UNCHANGED <<cwd, visited, launched, proc_2, alive_clients,
                               process, alive_servers, Trace>>
           ELSE /\ visited' = visited \cup {<<ti, "grpc">>}
                /\ IF Skips(tests[ti])
                     THEN /\ ti' = ti + 1
                          /\ pc' = "grpc_loop"
                          /\ returned' = returned \cup {<<ti, "grpc">>}
                          /\ Running
                          /\ UNCHANGED <<cwd, launched, proc_2, alive_clients,
                                         process, alive_servers, launches>>
                     ELSE \E launch \in {"started", "notfound", "oserror"},
                             client_folder \in BOOLEAN :
                            /\ (launch # "notfound") => client_folder
                            /\ cwd' = IF client_folder THEN ClientPath ELSE cwd
                            /\ UNCHANGED <<ti, returned>>
                            /\ CASE launch = "started" ->
                                      /\ launched' = [launched EXCEPT
                                             ![<<ti, "grpc">>] = @ + 1]
                                      /\ launches' = Append(launches,
                                             Launch("GrpcEvaluation.exe",
                                                    GrpcCommand(bi, ti), cwd',
                                                    ti, "grpc"))
                                      /\ proc_2' = "alive"
                                      /\ alive_clients' = alive_clients + 1
                                      /\ pc' = "grpc_wait"
                                      /\ Running
                                      /\ UNCHANGED <<process, alive_servers>>
                                 [] launch = "notfound" ->
                                      /\ grpc_console_tests_return
                                      /\ UNCHANGED <<launched, proc_2, alive_clients,
                                                     launches>>
                                 [] launch = "oserror" ->
                                      /\ Ends("OSError", "grpc_client", "1")
                                      /\ UNCHANGED <<launched, proc_2, alive_clients,
                                                     process, alive_servers,
                                                     launches>>
    /\ UNCHANGED <<Inputs, Validation, out_root, grpc_client_path, bi, handed, materialized,
                   proj, output_dirs, failed_cases, artifacts, validated,
                   server_starts, settled, console_alive>>

\* run_single_grpc_test with the client's status checked as the console's
\* is: a non-zero status raises CalledProcessError.
run_single_grpc_test_exit_checked ==
    /\ pc = "grpc_wait"
    /\ proc_2' = "exited"
    /\ alive_clients' = alive_clients - 1
    /\ \E status_ok \in BOOLEAN :
         /\ artifacts' = IF status_ok
                           THEN artifacts \cup {Written(launches[Len(launches)])}
                           ELSE artifacts
         /\ failed_cases' = IF status_ok
                              THEN failed_cases
                              ELSE failed_cases \cup {<<ti, "grpc">>}
         /\ IF status_ok
              THEN pc' = "grpc_kill_client" /\ Running
              ELSE Ends("CalledProcessError", "grpc_client", "1")
    /\ UNCHANGED <<Inputs, Trace, Validation, out_root, grpc_client_path, cwd, bi, ti, handed,
                   materialized, proj, output_dirs, visited, launched, validated,
                   process, server_starts, alive_servers, settled, console_alive>>

\* l.134: communicate() returns when the client has ended; its status is not
\* looked at.  A client that succeeds has written its third argument; one
\* that fails is taken to have written nothing.
run_single_grpc_test_exit ==
    /\ pc = "grpc_wait"
    /\ proc_2' = "exited"
    /\ alive_clients' = alive_clients - 1
    /\ \E status_ok \in BOOLEAN :
         /\ artifacts' = IF status_ok
                           THEN artifacts \cup {Written(launches[Len(launches)])}
                           ELSE artifacts
         /\ failed_cases' = IF status_ok
                              THEN failed_cases
                              ELSE failed_cases \cup {<<ti, "grpc">>}
    /\ pc' = "grpc_kill_client"
    /\ Running
    /\ UNCHANGED <<Inputs, Trace, Validation, out_root, grpc_client_path, cwd, bi, ti, handed,
                   materialized, proj, output_dirs, visited, launched, validated,
                   process, server_starts, alive_servers, settled, console_alive>>

\* l.135-137: proc_2.kill() on the ended client, and the next folder.
run_single_grpc_test_kill ==
    /\ pc = "grpc_kill_client"
    /\ proc_2' = "killed"
    /\ ti' = ti + 1
    /\ pc' = "grpc_loop"
    /\ returned' = returned \cup {<<ti, "grpc">>}
    /\ Running
    /\ UNCHANGED <<Inputs, Validation, launches, out_root, grpc_client_path, cwd, bi, handed,
                   materialized, proj, Results, process, server_starts,
                   alive_servers, settled, alive_clients, console_alive>>

(***************************************************************************)
(* Output validation and the operator's interrupt                          *)
(***************************************************************************)

\* l.159: output_folder.iterdir() lists the folder in one fixed order, taken
\* here as the order of the test folders and, for each, console before gRPC.
\* The next file is the first of that order not yet read.
IterDir(b) ==
    [i \in 1..(2 * NumTests) |->
        ResultFile(b, (i + 1) \div 2, IF i % 2 = 1 THEN "console" ELSE "grpc")]
NextFile(b) ==
    LET left == {i \in DOMAIN IterDir(b) : IterDir(b)[i] \in artifacts \ inspected}
    IN  IterDir(b)[CHOOSE i \in left : \A j \in left : i <= j]

\* l.159-169: the next file of the output folder: read it, print a warning
\* for every expected field that is not a column, or catch ValueError and
\* print that it cannot be parsed.
check_output_structure ==
    /\ pc = "validate"
    /\ inspected # artifacts
    /\ \E c \in Contents :
         /\ inspected' = inspected \cup {NextFile(bi)}
         /\ report' = CheckFile(NextFile(bi), c)
    /\ Running
    /\ UNCHANGED <<Inputs, Trace, pc, out_root, grpc_client_path, cwd, bi, ti,
                   handed, materialized, proj, Results, Procs>>

\* l.198-199: check_output_structure has been through the output folder;
\* create_output_for_project returns to the loop of run_tests.
create_output_validate ==
    /\ pc = "validate"
    /\ inspected = artifacts
    /\ validated' = validated \cup {bi}
    /\ inspected' = {}
    /\ report' = NoReport
    /\ proj' = NoProj
    /\ pc' = "loop"
    /\ Running
    /\ UNCHANGED <<Inputs, Trace, out_root, grpc_client_path, cwd, bi, ti, handed,
                   materialized, output_dirs, visited, launched, failed_cases,
                   artifacts, Procs>>

\* Ctrl-C while the script waits for a child or sleeps: KeyboardInterrupt is
\* caught by no handler of the script.  subprocess.run kills its child before
\* it re-raises (build, console); Popen.communicate and time.sleep do not
\* touch the children (client and server).
interrupt ==
    /\ pc \in {"build_blocked", "console_wait", "grpc_sleep", "grpc_wait"}
    /\ console_alive' = FALSE
    /\ Ends("KeyboardInterrupt", "interrupt", "interrupted")
    /\ UNCHANGED <<Inputs, Trace, Validation, out_root, grpc_client_path, cwd, bi, ti, handed,
                   materialized, proj, Results, process, server_starts,
                   alive_servers, settled, proc_2, alive_clients>>

Next ==
    \/ run_tests_parse
    \/ create_grpc_client_path
    \/ run_tests_setup_out
    \/ run_tests_loop
    \/ extract_build_solution_extract
    \/ extract_build_solution_build
    \/ create_output_check_console
    \/ console_tests_mkdir
    \/ console_tests_step
    \/ run_single_console_test_exit
    \/ create_output_grpc_check
    \/ grpc_console_tests_start
    \/ grpc_console_tests_sleep
    \/ grpc_console_tests_step
    \/ run_single_grpc_test_exit
    \/ run_single_grpc_test_kill
    \/ check_output_structure
    \/ create_output_validate
    \/ interrupt

Spec == Init /\ [][Next]_vars

(***************************************************************************)
(* Properties                                                              *)
(***************************************************************************)

\* Positions inside grpc_console_tests (and run_single_grpc_test).
GrpcPcs == {"grpc_start", "grpc_sleep", "grpc_loop", "grpc_wait", "grpc_kill_client"}
\* Positions of run_tests before the output root has been dealt with.
PreSetup == {"start", "build_client", "setup_out"}

ZipBundles == {b \in Bundles : sln_entries[b] = ".zip"}

\* The file counts of a test folder, counted on the listing itself.
Count(folder, ext) ==
    Cardinality({i \in DOMAIN folder.files : folder.files[i].ext = ext})
InvalidCase(t) ==
    tests[t].is_dir /\ (Count(tests[t], ".csv") # 1 \/ Count(tests[t], ".json") # 1)
ValidCase(t) ==
    tests[t].is_dir /\ Count(tests[t], ".csv") = 1 /\ Count(tests[t], ".json") = 1

\* Nothing was run for the bundle at hand.
ReportEmpty == visited = {} /\ launched = NoLaunch /\ artifacts = {}

\* Nothing was run for bundle b: it has no output folder, which console_tests
\* creates before the first test folder, and while it is the bundle at hand no
\* test folder was visited, nothing launched and no result file written.
NothingRun(b) ==
    /\ b \notin output_dirs
    /\ (b = bi) => ReportEmpty

\* The loop of run_tests is going on past entry b.
LoopGoesOn(b) ==
    \/ bi > b
    \/ bi = b /\ pc = "loop"
    \/ bi = b /\ pc = "done" /\ raised = "none"

\* C1: whenever the script is running outside grpc_console_tests (so in
\* particular whenever create_output_for_project has returned to the loop of
\* run_tests), and when it has ended normally, no server process is alive,
\* whatever mix of valid folders, invalid folders and failing clients was run.
C1_NoServerAfterReturn ==
    ((pc \notin GrpcPcs /\ pc # "done") \/ (pc = "done" /\ raised = "none"))
        => alive_servers = 0

\* C1 witness: back in the loop of run_tests after the gRPC run of a validated
\* bundle that met an invalid folder and a client that exited non-zero.
C1_Witness ==
    /\ pc = "loop"
    /\ bi \in validated
    /\ process = "killed"
    /\ \E t1 \in Tests, t2 \in Tests :
         /\ <<t1, "grpc">> \in failed_cases
         /\ <<t2, "grpc">> \in visited
         /\ InvalidCase(t2)

\* C2: in no reachable state is control outside grpc_console_tests, the script
\* ended by an exception or an interrupt included, with a server alive.
C2_NoServerOutsideGrpc ==
    (pc \notin GrpcPcs) => alive_servers = 0

\* C3: a console executable that exits non-zero for one test folder never ends
\* the script: the failure stays with that test folder.
C3_ConsoleFailureConfined ==
    \A t \in Tests :
        <<t, "console">> \in failed_cases
            => ~(pc = "done" /\ raised = "CalledProcessError"
                             /\ raised_at = "console_run")

\* C4: for a test folder whose .csv count or .json count is not one, neither
\* backend launches an executable or writes an artifact, and the step that
\* meets it raises nothing and moves the loop to the next entry.
C4_InvalidCaseSkipped ==
    /\ [](\A t \in Tests, k \in Backends :
            InvalidCase(t) => /\ launched[<<t, k>>] = 0
                              /\ \A i \in DOMAIN launches :
                                     launches[i].test # t)
    /\ [][ (pc \in {"console_loop", "grpc_loop"} /\ ti <= NumTests
              /\ InvalidCase(ti))
           => (/\ pc' = pc
               /\ ti' = ti + 1
               /\ raised' = "none"
               /\ exit_code' = "running"
               /\ launched' = launched
               /\ launches' = launches
               /\ artifacts' = artifacts) ]_vars

\* C4 witness: one bundle met an invalid folder in both backends and both
\* backends went on to launch for a later folder.
C4_Witness ==
    \E t1 \in Tests, t2 \in Tests :
        /\ t1 < t2
        /\ InvalidCase(t1)
        /\ <<t1, "console">> \in visited
        /\ <<t1, "grpc">> \in visited
        /\ launched[<<t2, "console">>] = 1
        /\ launched[<<t2, "grpc">>] = 1

C6_OnlySetupFailuresStopBatch ==
    (pc = "done" /\ ZipBundles \ handed # {})
        => raised_at \in {"args", "out_exists", "client_build", "interrupt"}

\* C7: once run_tests is past its output-root check: if the root existed and
\* --force was not given, the script has exited with status 1, no bundle was
\* handed over or materialized, nothing was run and the root is as it was; if
\* the root existed and --force was given it was removed and created again;
\* and no bundle is handed over before the root was created.
C7_ExistingOutputRoot ==
    /\ (pc \notin PreSetup /\ raised_at \notin {"args", "client_build"} /\ out_existed)
          => IF args.force
               THEN out_root = "recreated"
               ELSE /\ pc = "done"
                    /\ exit_code = "1"
                    /\ raised_at = "out_exists"
                    /\ out_root = "old"
                    /\ handed = {}
                    /\ output_dirs = {}
                    /\ ReportEmpty
                    /\ \A b \in Bundles : materialized[b] = "pending"
    /\ (handed # {}) => out_root \in {"created", "recreated"}

\* C7 witness: the script has exited on an existing output root without
\* --force.
C7_Witness ==
    /\ out_existed
    /\ ~args.force
    /\ pc = "done"
    /\ raised_at = "out_exists"
    /\ exit_code = "1"

\* C8: a server or client executable found missing at its launch never ends
\* the script: grpc_console_tests returns and validation follows.
C8_MissingExecutableReturns ==
    pc = "done" => ~(raised \in {"FileNotFoundError", "UnboundLocalError"}
                       /\ raised_at \in {"grpc_server", "grpc_client"})

\* C9: the gRPC backend is entered only with a client path configured and the
\* server executable present; a bundle without the server executable starts
\* no server, raises no error and reaches validation.
C9_GrpcOnlyWithServerExecutable ==
    /\ (pc \in GrpcPcs) => (grpc_client_path = "client" /\ proj.server_exe)
    /\ raised_at # "grpc_server"

\* C10: every run of grpc_console_tests that has ended has started exactly one
\* server process.
C10_ExactlyOneServerPerRun ==
    (raised_at \in {"grpc_server", "grpc_client"}
       \/ (pc = "validate" /\ process # "unbound"))
        => server_starts = 1

\* The order of one run of grpc_console_tests, apart from the count of C10: at
\* most one server is started and at most one client is alive; a client is
\* alive only with the server alive and the sleep over; between two test
\* folders no client is alive and the last one was killed; the server is
\* killed only with no client alive.
GrpcProtocolOrder ==
    /\ server_starts <= 1
    /\ alive_servers <= 1
    /\ alive_clients <= 1
    /\ (alive_clients = 1) => (process = "alive" /\ settled /\ server_starts = 1)
    /\ (pc = "grpc_loop") => (alive_clients = 0 /\ proc_2 \in {"none", "killed"}
                                /\ process = "alive" /\ settled)
    /\ (process = "killed") => alive_clients = 0

\* The launches made for test folder t by backend k, as positions of the log.
LaunchesOf(t, k) ==
    {i \in DOMAIN launches : launches[i].test = t /\ launches[i].backend = k}

\* The command line a backend is to be given for test folder t of bundle b:
\* the executable, the folder's .json file, its .csv file, and the folder's
\* name with the backend's ending below the output folder of the bundle.
ExpectedExe(k) == IF k = "console" THEN "BacktestConsole.exe" ELSE "GrpcEvaluation.exe"
ExpectedOutput(b, t, k) ==
    [dir |-> <<"output", b>>,
     name |-> TestName(t) \o (IF k = "console" THEN <<"_output.json">>
                                                ELSE <<"_grpc", "_output.json">>)]
FileWithExt(t, ext) ==
    LET f == CHOOSE g \in {tests[t].files[i] : i \in DOMAIN tests[t].files} :
                 g.ext = ext
    IN  [dir |-> <<"test", t>>, name |-> <<f.stem, f.ext>>]

\* Every valid test folder a backend has dealt with was launched exactly once,
\* with the executable of the backend and the arguments (.json path, .csv
\* path, output path); a launch that succeeded left its output path in the
\* output folder, and nothing else is there.
LaunchArguments ==
    /\ \A t \in Tests, k \in Backends :
          (ValidCase(t) /\ <<t, k>> \in returned) =>
              /\ Cardinality(LaunchesOf(t, k)) = 1
              /\ \A i \in LaunchesOf(t, k) :
                    /\ launches[i].exe = ExpectedExe(k)
                    /\ launches[i].argv = <<FileWithExt(t, ".json"),
                                            FileWithExt(t, ".csv"),
                                            ExpectedOutput(bi, t, k)>>
              /\ (<<t, k>> \notin failed_cases)
                    => ExpectedOutput(bi, t, k) \in artifacts
    /\ \A t \in Tests, k \in Backends : Cardinality(LaunchesOf(t, k)) <= 1
    /\ artifacts \subseteq
          {ExpectedOutput(bi, t, k) : t \in {u \in Tests : ValidCase(u)},
                                     k \in Backends}

\* C11: a valid test folder is launched exactly once by each backend, with the
\* arguments (.json path, .csv path, output path), the output path being the
\* folder name plus "_output.json" or "_grpc_output.json" in the output
\* folder; and two launches for different test folders or different backends
\* never have the same output path.
C11_OneLaunchOnePath ==
    /\ LaunchArguments
    /\ \A i, j \in DOMAIN launches :
          (i # j /\ launches[i].test # 0 /\ launches[j].test # 0)
              => Written(launches[i]) # Written(launches[j])

\* The field names a result file is to have.
RequiredFields == {"date", "value", "deltas", "deltasStdDev", "price", "priceStdDev"}
Range(seq) == {seq[i] : i \in DOMAIN seq}

\* C12: for a result file that can be parsed, the warnings name exactly the
\* required fields that are not among its columns, each once, and no other
\* name; for one that cannot be parsed, that is printed and nothing is raised;
\* and check_output_structure goes on, file by file, and returns only when it
\* has been through every file of the output folder.
C12_ValidatorReportsMissingFields ==
    /\ [](report # NoReport =>
            /\ pc = "validate"
            /\ raised = "none"
            /\ report.file \in inspected
            /\ IF report.parsable
                 THEN /\ Range(report.warnings) = RequiredFields \ report.columns
                      /\ Len(report.warnings) = Cardinality(Range(report.warnings))
                      /\ report.last_line = "--> OK"
                 ELSE /\ report.warnings = <<>>
                      /\ report.last_line = "Unable to parse json file.")
    /\ [][ pc = "validate" =>
             /\ raised' = "none"
             /\ exit_code' = "running"
             /\ IF inspected = artifacts
                  THEN pc' = "loop" /\ bi \in validated'
                  ELSE /\ pc' = "validate"
                       /\ \E f \in artifacts \ inspected :
                            /\ inspected' = inspected \cup {f}
                            /\ report'.file = f ]_vars

\* C12 witness: after another file, a file with the columns date, value and
\* price was read, and the warnings name deltas, deltasStdDev and priceStdDev.
C12_Witness ==
    /\ pc = "validate"
    /\ Cardinality(inspected) >= 2
    /\ report.parsable
    /\ report.columns = {"date", "value", "price"}
    /\ report.warnings = <<"deltas", "deltasStdDev", "priceStdDev">>

\* C13: the script never sits in a dotnet build that does not end: such a
\* build is cut off as a timeout failure of the bundle ((False, None)) and the
\* loop of run_tests goes on.
C13_BuildCannotStall ==
    pc # "build_blocked"

\* The steps of create_output_for_project, numbered in the order the claim
\* gives them: 1 materialize, 2 check the console folder, 3 create the output
\* folder, 4 console backend, 5 gRPC backend, 6 validation.
StepOf(p) ==
    CASE p \in {"extract", "build", "build_blocked"} -> 1
      [] p = "check_console" -> 2
      [] p = "console_mkdir" -> 3
      [] p \in {"console_loop", "console_wait"} -> 4
      [] p \in {"grpc_check"} \cup GrpcPcs -> 5
      [] p = "validate" -> 6
      [] OTHER -> 0
\* The gRPC backend applies to the bundle at hand.
GrpcApplies == grpc_client_path # "None" /\ proj.server_folder
\* The console backend has been through every test folder.
ConsoleDone ==
    /\ ~console_alive
    /\ \A t \in Tests : tests[t].is_dir => <<t, "console">> \in returned

\* C14: for the bundle at hand the steps are taken in the order materialize,
\* check of the console folder, creation of the output folder, console
\* backend, gRPC backend, validation, none of them skipped or taken again;
\* nothing is launched before the bundle was built, its console folder found
\* and its output folder created; a server or client is launched only after
\* the console backend has been through every test folder and its last
\* console has ended; validation starts only with the console backend done
\* and, where the gRPC backend applies, its server started and killed.
C14_StepOrder ==
    /\ [][ (StepOf(pc) # 0 /\ pc' # "done") =>
             /\ bi' = bi
             /\ IF StepOf(pc') = 0
                  THEN pc' = "loop" /\ StepOf(pc) \in {1, 6}
                  ELSE StepOf(pc') \in {StepOf(pc), StepOf(pc) + 1} ]_vars
    /\ [][ (StepOf(pc) = 0 /\ StepOf(pc') # 0) =>
             (pc = "loop" /\ StepOf(pc') = 1 /\ bi' = bi + 1) ]_vars
    /\ [](/\ (StepOf(pc) >= 2) => materialized[bi] = "ok"
          /\ (StepOf(pc) >= 3) => proj.console_dir
          /\ (StepOf(pc) >= 4) => bi \in output_dirs
          /\ (StepOf(pc) \in 1..3) => (bi \notin output_dirs /\ launches = <<>>)
          /\ (launches # <<>>) => /\ bi \in output_dirs
                                  /\ materialized[bi] = "ok"
                                  /\ (bi \notin validated) => proj.console_dir
          /\ \A i \in DOMAIN launches :
                (launches[i].backend = "grpc") =>
                    /\ ConsoleDone
                    /\ \A j \in DOMAIN launches :
                          (launches[j].backend = "console") => j < i
          /\ (StepOf(pc) = 4) => process = "unbound"
          /\ (pc = "validate") =>
                /\ ConsoleDone
                /\ alive_clients = 0
                /\ alive_servers = 0
                /\ process = IF GrpcApplies THEN "killed" ELSE "unbound"
          /\ (bi \in validated) => bi \in output_dirs)

\* C14 witness: validation of a bundle for which both backends have launched
\* for a test folder and the server was killed.
C14_Witness ==
    /\ pc = "validate"
    /\ \E t \in Tests : launched[<<t, "console">>] = 1 /\ launched[<<t, "grpc">>] = 1
    /\ process = "killed"
    /\ inspected = {}

\* The test folders (entries that are directories) before entry t.
DirsBefore(t) == {u \in Tests : u < t /\ tests[u].is_dir}

\* C15: a client that ends with a non-zero status raises nothing: the client
\* is cleaned up and the loop goes on with the server alive; the test folders
\* are given to run_single_grpc_test in their order, none left out; a script
\* that has ended after a client failure has come to its end or was ended by
\* something else (a launch that failed, the operator), not by the status; and
\* when the loop has been through its last entry, every test folder was
\* dealt with, every valid one launched once, and the server is killed.
C15_ClientFailureGoesOn ==
    /\ [][ (failed_cases' # failed_cases /\ pc = "grpc_wait") =>
             /\ pc' = "grpc_kill_client"
             /\ raised' = "none"
             /\ exit_code' = "running"
             /\ process' = "alive"
             /\ alive_servers' = 1 ]_vars
    /\ [][ pc = "grpc_kill_client" =>
             (pc' = "grpc_loop" /\ ti' = ti + 1 /\ process' = "alive") ]_vars
    /\ [](/\ \A t \in Tests :
                (<<t, "grpc">> \in visited) =>
                    \A u \in DirsBefore(t) : <<u, "grpc">> \in returned
          /\ \A t \in Tests :
                (<<t, "grpc">> \in failed_cases /\ pc = "done") =>
                    raised \in {"none", "OSError", "KeyboardInterrupt"}
          /\ (pc = "validate" /\ process = "killed" /\ ti > NumTests) =>
                /\ \A t \in Tests :
                      tests[t].is_dir =>
                          /\ <<t, "grpc">> \in returned
                          /\ ValidCase(t) => launched[<<t, "grpc">>] = 1
                /\ alive_servers = 0
                /\ alive_clients = 0)

\* C15 witness: the gRPC backend has returned after its last entry with the
\* server killed; the client of one test folder had failed and a client was
\* launched for a later one.
C15_Witness ==
    /\ pc = "validate"
    /\ process = "killed"
    /\ ti > NumTests
    /\ \E t1 \in Tests, t2 \in Tests :
          /\ t1 < t2
          /\ <<t1, "grpc">> \in failed_cases
          /\ launched[<<t2, "grpc">>] = 1
          /\ <<t2, "grpc">> \in returned

\* C16: the step of extract_build_solution that looks up, extracts and
\* enters the bundle moves the working directory to the extracted root of
\* that bundle when it goes on to the build, and leaves it as it was when it
\* fails (bundle missing, archive corrupt, root folder absent); the build is
\* started, and waited for, with the working directory at that root, and
\* does not move it.
C16_ChdirOnlyAfterExtraction ==
    /\ [][ pc = "extract" =>
             IF pc' = "build"
               THEN /\ cwd' = <<"root", bi>>
                    /\ materialized' = materialized
               ELSE /\ cwd' = cwd
                    /\ pc' = "loop"
                    /\ materialized'[bi] \in {"missing", "corrupt", "noroot"} ]_vars
    /\ [][ (pc \in {"build", "build_blocked"}) => (cwd' = cwd) ]_vars
    /\ [](pc \in {"build", "build_blocked"} => cwd = <<"root", bi>>)

\* C16 witness: a second bundle is about to be built in its own extracted
\* root, after a first bundle was run and had left the working directory in
\* one of its own folders.
C16_Witness ==
    /\ pc = "build"
    /\ bi > 1
    /\ (bi - 1) \in validated
    /\ cwd = <<"root", bi>>

\* The folder each executable is built into: the console and the server in
\* the bin folder of their project inside bundle b, the client in the bin
\* folder of the staged client.
HomeOf(exe, b) ==
    CASE exe = "BacktestConsole.exe" -> <<"console", b>>
      [] exe = "GrpcBacktestServer.exe" -> <<"server", b>>
      [] exe = "GrpcEvaluation.exe" -> <<"client", 0>>

\* C17: every executable was started with the working directory at the
\* folder it is built into, for the bundle at hand: the console in the
\* console bin folder, the server in the server bin folder, the client in the
\* client folder; and while a console or a client runs the working directory
\* is still there.
C17_LaunchedFromOwnFolder ==
    /\ \A i \in DOMAIN launches :
          launches[i].cwd = HomeOf(launches[i].exe, bi)
    /\ console_alive => cwd = <<"console", bi>>
    /\ (alive_clients > 0 /\ pc = "grpc_wait") => cwd = <<"client", 0>>
    /\ (pc = "grpc_sleep") => cwd = <<"server", bi>>

\* C17 witness: for a second bundle, after a first one was run to its end, the
\* console, the server and the clients of two test folders were started.
C17_Witness ==
    /\ bi > 1
    /\ (bi - 1) \in validated
    /\ \E i, j, k, l \in DOMAIN launches :
          /\ launches[i].exe = "BacktestConsole.exe"
          /\ launches[j].exe = "GrpcBacktestServer.exe"
          /\ launches[k].exe = "GrpcEvaluation.exe"
          /\ launches[l].exe = "GrpcEvaluation.exe"
          /\ k < l

====
